---- MODULE Spec2Model ----
(***************************************************************************)
(* UpgradeHelperV11 (great_expectations/cli/upgrade_helpers/               *)
(* upgrade_helper_v11.py): the 0.10 -> 0.11 migration of validation result *)
(* keys.  The helper's fields keep their names; the locals of              *)
(* upgrade_store_backend live in `frame`; the store backends (external     *)
(* collaborators) are maps from keys to values.                            *)
(***************************************************************************)
EXTENDS Integers, Sequences, FiniteSets, TLC

VARIABLES
    registry,              \* data_context: the stores and docs sites, in dict order
    upgrade_log,           \* self.upgrade_log
    upgrade_checklist,     \* self.upgrade_checklist (names in dict order)
    validation_run_times,  \* self.validation_run_times
    store_backends,        \* contents of every backend: name -> (key -> value)
    pass,                  \* position in upgrade_project
    idx,                   \* index of the current store/site in its checklist
    frame,                 \* locals of the running upgrade_store_backend call
    faults,                \* backend failures injected so far
    session,               \* number of the running session (helper object)
    trace,                 \* history: operations issued in this session
    listings,              \* history: what list_keys did per backend
    escaped,               \* history: backends whose call raised out
    prior                  \* history: records migrated by earlier sessions

vars == <<registry, upgrade_log, upgrade_checklist, validation_run_times, store_backends,
          pass, idx, frame, faults, session, trace, listings, escaped, prior>>

\* ------------------------------------------------------------------ bounds
MaxFaults == 3
MaxSessions == 2

\* ------------------------------------------------------------ the inputs
RunDate == "20210101T000000"
RunLabel == "my_custom_run"
IsoDate == "2021-01-01T00:00:00"
MTimeA == "2021-06-15T10:00:00+00:00"
MTimeB == "2021-07-01T08:30:00+00:00"

KeyDate == <<"suite", RunDate, "batch">>
KeyLabel == <<"suite", RunLabel, "batch">>
KeyLabel2 == <<"other", RunLabel, "batch">>
KeyStray == <<"stray">>

\* The validations stores and docs sites with a tuple backend, in the
\* order of the checklist dicts, and the backends whose contents are
\* modelled.
StoreNames == <<"vs_fs", "vs_s3">>
SiteNames == <<"site_fs", "site_gcs">>
BackendNames == {"vs_fs", "vs_s3", "site_fs", "site_gcs"}

\* type(store.store_backend) of a store, type of the validations backend
\* of a site's HtmlSiteStore.
BackendKind(b) ==
    CASE b \in {"vs_fs", "site_fs", "metrics_fs", "expectations_fs"} -> "TupleFilesystemStoreBackend"
      [] b = "vs_s3" -> "TupleS3StoreBackend"
      [] b \in {"vs_db", "metrics_db"} -> "DatabaseStoreBackend"
      [] b \in {"vs_mem", "metrics_mem", "site_mem"} -> "InMemoryStoreBackend"
      [] OTHER -> "TupleGCSStoreBackend"

\* The class of a store of data_context.stores.
StoreType(store_name) ==
    CASE store_name \in {"vs_fs", "vs_s3", "vs_db", "vs_mem"} -> "ValidationsStore"
      [] store_name \in {"metrics_db", "metrics_mem", "metrics_fs"} -> "MetricStore"
      [] OTHER -> "ExpectationsStore"

\* data_context.stores and data_docs_sites of the projects considered.
Registries ==
    { [stores |-> StoreNames, sites |-> SiteNames],
      [stores |-> <<"expectations_fs", "vs_db", "vs_fs", "metrics_db", "metrics_mem",
                    "vs_s3", "metrics_fs", "vs_mem">>,
       sites |-> <<"site_mem", "site_fs", "site_gcs">>],
      [stores |-> <<"metrics_mem", "vs_db">>, sites |-> <<>>] }

\* What each backend holds before the first session.
Scenarios ==
    { [vs_fs |-> {KeyDate, KeyLabel}, vs_s3 |-> {KeyLabel2},
       site_fs |-> {KeyLabel}, site_gcs |-> {KeyDate}],
      [vs_fs |-> {KeyStray, KeyDate}, vs_s3 |-> {KeyDate},
       site_fs |-> {KeyStray, KeyLabel}, site_gcs |-> {}],
      [vs_fs |-> {KeyLabel, KeyLabel2}, vs_s3 |-> {KeyStray, KeyLabel},
       site_fs |-> {KeyDate}, site_gcs |-> {KeyLabel2}] }

RerunScenarios ==
    { [vs_fs |-> {KeyDate, KeyLabel}, vs_s3 |-> {},
       site_fs |-> {KeyDate}, site_gcs |-> {}] }

\* A stored validation result: meta.run_id and the rest of the document
\* (identified by the key it was first stored under).  A 0.10 run_id is a
\* plain string, a 0.11 run_id is {run_name, run_time}.
OldValue(k) ==
    [run_id |-> IF Len(k) >= 2 THEN <<k[Len(k) - 1]>> ELSE <<>>, data |-> k]

InitialContents(keys) == [k \in keys |-> OldValue(k)]

\* ----------------------------------------------------- python values
None == [def |-> "None", val |-> <<>>]
Unbound == [def |-> "unbound", val |-> <<>>]
Some(k) == [def |-> "key", val |-> k]
NoName == [def |-> FALSE, val |-> ""]
NoJson == [run_id |-> <<>>, data |-> <<>>]

\* Truth value of a key argument (`if source_key`).
Truthy(k) == k.def = "key" /\ Len(k.val) > 0

NA == [kind |-> "N/A", backend |-> "", key |-> <<>>]

\* Orders in which list_keys may return the keys of a backend.
Orders(S) ==
    { s \in [1..Cardinality(S) -> S] : \A i, j \in 1..Cardinality(S) : s[i] = s[j] => i = j }

\* --------------------------------------------------- run-time resolution
\* dateutil's parse(run_name).isoformat(): a date-like identifier becomes
\* its ISO-8601 form; an ISO-8601 string is its own ISO-8601 form; a label
\* is no date (ParserError).
Parseable(run_name) == run_name \in {RunDate, IsoDate, MTimeA, MTimeB}

ParseIso(run_name) == IF run_name = RunDate THEN IsoDate ELSE run_name

\* The modification / last_modified / time_created stamp of the object a
\* key is stored in.
ProvenanceTime(b, source_key) ==
    IF b \in {"vs_fs", "vs_s3"} /\ source_key[1] = "suite" THEN MTimeA ELSE MTimeB

\* The S3 and GCS setters build their client before anything else.
NeedsClient(kind) == kind # "TupleFilesystemStoreBackend"

\* Outcomes of run_time_setters_by_backend_type[type(store_backend)](
\* source_key, store_backend): on success validation_run_times[run_name]
\* is set to `time`; a failure leaves the cache alone.
RunTimeSetter(b, source_key) ==
    LET run_name == source_key[Len(source_key) - 1]
        Failed(how) == [ok |-> FALSE, time |-> "", how |-> how]
    IN  (IF NeedsClient(BackendKind(b)) THEN {Failed("failed_client")} ELSE {})
        \cup
        (IF Parseable(run_name)
            THEN {[ok |-> TRUE, time |-> ParseIso(run_name), how |-> "parsed"]}
            ELSE {[ok |-> TRUE, time |-> ProvenanceTime(b, source_key), how |-> "fetched"],
                  Failed("failed_fetch")})

\* The run time is resolved for every key, cached or not.
NeedsResolution_Always(run_name, cache) == TRUE

\* `if run_name not in self.validation_run_times`
NeedsResolution(run_name, cache) == run_name \notin DOMAIN cache

\* dest_key_list = list(source_key); dest_key_list.insert(-1, run_time)
InsertBeforeLast(source_key, run_time) ==
    IF Len(source_key) = 0
        THEN <<run_time>>
        ELSE SubSeq(source_key, 1, Len(source_key) - 1)
             \o <<run_time>> \o <<source_key[Len(source_key)]>>

\* ------------------------------------------------------- the upgrade log
EmptyLog ==
    [skipped_validations_stores |-> [database_store_backends |-> <<>>, unsupported |-> <<>>],
     skipped_docs_validations_stores |-> [unsupported |-> <<>>],
     skipped_metrics_stores |-> [database_store_backends |-> <<>>, unsupported |-> <<>>],
     exceptions |-> <<>>,
     upgraded_validations_stores |-> <<>>,
     upgraded_docs_site_validations_stores |-> <<>>]

\* get_url_for_key is called without the `if key` test: None has no URL.
UrlOrPlaceholder_NoNoneCheck(b, key, url_ok) ==
    IF url_ok /\ Truthy(key) THEN [kind |-> "url", backend |-> b, key |-> key.val]
    ELSE [kind |-> "unable", backend |-> "", key |-> key.val]

\* store_backend.get_url_for_key(key) if key else "N/A", with the
\* placeholder when get_url_for_key raises.
UrlOrPlaceholder(b, key, url_ok) ==
    IF ~Truthy(key) THEN NA
    ELSE IF url_ok THEN [kind |-> "url", backend |-> b, key |-> key.val]
    ELSE [kind |-> "unable", backend |-> "", key |-> key.val]

\* The section of the log is rebuilt with the new store's or site's entry
\* alone.
InitLogEntry_Reset(log, b, is_store) ==
    IF is_store
        THEN [log EXCEPT !.upgraded_validations_stores =
                [n \in {b} |-> [validations_updated |-> <<>>, exceptions |-> FALSE]]]
        ELSE [log EXCEPT !.upgraded_docs_site_validations_stores =
                [n \in {b} |-> [validation_result_pages_updated |-> <<>>, exceptions |-> FALSE]]]

\* self.upgrade_log[...][name] = {"..._updated": [], "exceptions": False}
InitLogEntry(log, b, is_store) ==
    IF is_store
        THEN [log EXCEPT !.upgraded_validations_stores =
                [n \in (DOMAIN @) \cup {b} |->
                    IF n = b THEN [validations_updated |-> <<>>, exceptions |-> FALSE]
                    ELSE @[n]]]
        ELSE [log EXCEPT !.upgraded_docs_site_validations_stores =
                [n \in (DOMAIN @) \cup {b} |->
                    IF n = b THEN [validation_result_pages_updated |-> <<>>, exceptions |-> FALSE]
                    ELSE @[n]]]

\* The pair is appended to the updated list whether or not an exception
\* is being logged.
UpdateUpgradeLog_AlwaysUpdated(log, b, is_store, source_key, dest_key, exception_message, src_ok, dest_ok) ==
    LET src_url == UrlOrPlaceholder(b, source_key, src_ok)
        dest_url == UrlOrPlaceholder(b, dest_key, dest_ok)
        pair == [src |-> src_url, dest |-> dest_url]
        exc == [key_name |-> IF is_store THEN "validation_store_name" ELSE "site_name",
                name |-> b, src |-> src_url, dest |-> dest_url,
                exception_message |-> exception_message]
        log1 == IF exception_message = "" THEN log
                ELSE [log EXCEPT !.exceptions = Append(@, exc)]
        log2 == IF exception_message = "" THEN log1
                ELSE IF is_store
                    THEN [log1 EXCEPT !.upgraded_validations_stores[b].exceptions = TRUE]
                    ELSE [log1 EXCEPT !.upgraded_docs_site_validations_stores[b].exceptions = TRUE]
    IN  IF is_store
            THEN [log2 EXCEPT !.upgraded_validations_stores[b].validations_updated =
                                Append(@, pair)]
            ELSE [log2 EXCEPT
                    !.upgraded_docs_site_validations_stores[b].validation_result_pages_updated =
                                Append(@, pair)]

\* One try block around both get_url_for_key calls: a failure of either
\* replaces both locations by the placeholder.
UpdateUpgradeLog_SharedTry(log, b, is_store, source_key, dest_key, exception_message, src_ok, dest_ok) ==
    LET both_ok == src_ok /\ dest_ok
        Unable(key) == [kind |-> "unable", backend |-> "", key |-> key.val]
        src_url == IF both_ok THEN UrlOrPlaceholder(b, source_key, TRUE) ELSE Unable(source_key)
        dest_url == IF both_ok THEN UrlOrPlaceholder(b, dest_key, TRUE) ELSE Unable(dest_key)
        pair == [src |-> src_url, dest |-> dest_url]
        exc == [key_name |-> IF is_store THEN "validation_store_name" ELSE "site_name",
                name |-> b, src |-> src_url, dest |-> dest_url,
                exception_message |-> exception_message]
        log1 == IF exception_message = "" THEN log
                ELSE [log EXCEPT !.exceptions = Append(@, exc)]
    IN  IF is_store
            THEN IF exception_message # ""
                    THEN [log1 EXCEPT !.upgraded_validations_stores[b].exceptions = TRUE]
                    ELSE [log1 EXCEPT !.upgraded_validations_stores[b].validations_updated =
                                        Append(@, pair)]
            ELSE IF exception_message # ""
                    THEN [log1 EXCEPT !.upgraded_docs_site_validations_stores[b].exceptions = TRUE]
                    ELSE [log1 EXCEPT
                            !.upgraded_docs_site_validations_stores[b].validation_result_pages_updated =
                                        Append(@, pair)]

\* The exception is appended to the flat list and the flag of the store
\* or site is left as it is.
UpdateUpgradeLog_FlagNotSet(log, b, is_store, source_key, dest_key, exception_message, src_ok, dest_ok) ==
    LET src_url == UrlOrPlaceholder(b, source_key, src_ok)
        dest_url == UrlOrPlaceholder(b, dest_key, dest_ok)
        pair == [src |-> src_url, dest |-> dest_url]
        exc == [key_name |-> IF is_store THEN "validation_store_name" ELSE "site_name",
                name |-> b, src |-> src_url, dest |-> dest_url,
                exception_message |-> exception_message]
    IN  IF exception_message # ""
            THEN [log EXCEPT !.exceptions = Append(@, exc)]
        ELSE IF is_store
            THEN [log EXCEPT !.upgraded_validations_stores[b].validations_updated =
                                Append(@, pair)]
        ELSE [log EXCEPT
                !.upgraded_docs_site_validations_stores[b].validation_result_pages_updated =
                                Append(@, pair)]

\* _update_upgrade_log; exception_message "" stands for None.
UpdateUpgradeLog(log, b, is_store, source_key, dest_key, exception_message, src_ok, dest_ok) ==
    LET src_url == UrlOrPlaceholder(b, source_key, src_ok)
        dest_url == UrlOrPlaceholder(b, dest_key, dest_ok)
        pair == [src |-> src_url, dest |-> dest_url]
        exc == [key_name |-> IF is_store THEN "validation_store_name" ELSE "site_name",
                name |-> b, src |-> src_url, dest |-> dest_url,
                exception_message |-> exception_message]
        log1 == IF exception_message = "" THEN log
                ELSE [log EXCEPT !.exceptions = Append(@, exc)]
    IN  IF is_store
            THEN IF exception_message # ""
                    THEN [log1 EXCEPT !.upgraded_validations_stores[b].exceptions = TRUE]
                    ELSE [log1 EXCEPT !.upgraded_validations_stores[b].validations_updated =
                                        Append(@, pair)]
            ELSE IF exception_message # ""
                    THEN [log1 EXCEPT !.upgraded_docs_site_validations_stores[b].exceptions = TRUE]
                    ELSE [log1 EXCEPT
                            !.upgraded_docs_site_validations_stores[b].validation_result_pages_updated =
                                        Append(@, pair)]

\* The get_url_for_key outcomes one log call may see with `budget` failures
\* left: get_url_for_key is only called for a truthy key.
UrlOutcomes(source_key, dest_key, budget) ==
    { o \in [src_ok : BOOLEAN, dest_ok : BOOLEAN] :
        /\ (~o.src_ok => Truthy(source_key))
        /\ (~o.dest_ok => Truthy(dest_key))
        /\ (IF o.src_ok THEN 0 ELSE 1) + (IF o.dest_ok THEN 0 ELSE 1) <= budget }

UrlFaults(o) == (IF o.src_ok THEN 0 ELSE 1) + (IF o.dest_ok THEN 0 ELSE 1)

\* Which get_url_for_key calls of one log call raised.
UrlCode(o) ==
    IF o.src_ok /\ o.dest_ok THEN ""
    ELSE IF o.dest_ok THEN "src"
    ELSE IF o.src_ok THEN "dest"
    ELSE "src+dest"

\* --------------------------------------------- _generate_upgrade_checklist
\* tuple(list(self.run_time_setters_by_backend_type.keys()))
SupportedKinds ==
    {"TupleFilesystemStoreBackend", "TupleS3StoreBackend", "TupleGCSStoreBackend"}

EmptyChecklist ==
    [validations_store_backends |-> <<>>, docs_validations_store_backends |-> <<>>]

SkippedStore(store_name) ==
    [store_name |-> store_name, store_backend_class |-> BackendKind(store_name)]

SkippedSite(site_name) ==
    [site_name |-> site_name, validations_store_backend_class |-> BackendKind(site_name)]

\* The helper's two fields the checklist builder writes.
Helper(log, checklist) == [log |-> log, checklist |-> checklist]

\* The validations store is classified without the test for a database
\* backend.
ProcessValidationsStoreForChecklist_NoDatabaseCheck(h, store_name) ==
    IF BackendKind(store_name) \in SupportedKinds
        THEN [h EXCEPT !.checklist.validations_store_backends = Append(@, store_name)]
    ELSE [h EXCEPT !.log.skipped_validations_stores.unsupported =
                            Append(@, SkippedStore(store_name))]

ProcessValidationsStoreForChecklist(h, store_name) ==
    IF BackendKind(store_name) = "DatabaseStoreBackend"
        THEN [h EXCEPT !.log.skipped_validations_stores.database_store_backends =
                            Append(@, SkippedStore(store_name))]
    ELSE IF BackendKind(store_name) \in SupportedKinds
        THEN [h EXCEPT !.checklist.validations_store_backends = Append(@, store_name)]
    ELSE [h EXCEPT !.log.skipped_validations_stores.unsupported =
                            Append(@, SkippedStore(store_name))]

\* An in-memory metric store is reported like any other backend that is
\* not a database.
ProcessMetricsStoreForChecklist_ReportsInMemory(h, store_name) ==
    IF BackendKind(store_name) = "DatabaseStoreBackend"
        THEN [h EXCEPT !.log.skipped_metrics_stores.database_store_backends =
                            Append(@, SkippedStore(store_name))]
    ELSE [h EXCEPT !.log.skipped_metrics_stores.unsupported =
                            Append(@, SkippedStore(store_name))]

ProcessMetricsStoreForChecklist(h, store_name) ==
    IF BackendKind(store_name) = "DatabaseStoreBackend"
        THEN [h EXCEPT !.log.skipped_metrics_stores.database_store_backends =
                            Append(@, SkippedStore(store_name))]
    ELSE IF BackendKind(store_name) = "InMemoryStoreBackend"
        THEN h
    ELSE [h EXCEPT !.log.skipped_metrics_stores.unsupported =
                            Append(@, SkippedStore(store_name))]

ProcessDocsSiteForChecklist(h, site_name) ==
    IF BackendKind(site_name) \in SupportedKinds
        THEN [h EXCEPT !.checklist.docs_validations_store_backends = Append(@, site_name)]
    ELSE [h EXCEPT !.log.skipped_docs_validations_stores.unsupported =
                            Append(@, SkippedSite(site_name))]

\* One iteration of the loop over data_context.stores.
ProcessStore(h, store_name) ==
    IF StoreType(store_name) \notin {"ValidationsStore", "MetricStore"} THEN h
    ELSE IF StoreType(store_name) = "ValidationsStore"
        THEN ProcessValidationsStoreForChecklist(h, store_name)
    ELSE ProcessMetricsStoreForChecklist(h, store_name)

\* ------------------------------------------------------- upgrade_project
Checklist(p) ==
    IF p = "stores" THEN upgrade_checklist.validations_store_backends
    ELSE upgrade_checklist.docs_validations_store_backends

Cur == Checklist(pass)[idx]

IsStore == pass = "stores"

FreshFrame ==
    [step |-> "start", keys |-> <<>>, ki |-> 0,
     run_name |-> NoName, dest_key |-> Unbound, json |-> NoJson]

Returned == [pass |-> "returned", idx |-> 0]

\* __init__ returned; upgrade_project has not been called.
Constructed == [pass |-> "constructed", idx |-> 0]

\* `if sites:` and the loop over the docs sites.
SitesStart ==
    IF Len(registry.sites) > 0 THEN [pass |-> "checklist_sites", idx |-> 1]
    ELSE Constructed

\* The loop over data_context.stores.
ChecklistStart ==
    IF Len(registry.stores) > 0 THEN [pass |-> "checklist_stores", idx |-> 1]
    ELSE SitesStart

\* The second try block of upgrade_project: the loop over the docs sites.
DocsPassStart ==
    IF Len(upgrade_checklist.docs_validations_store_backends) > 0
        THEN [pass |-> "docs", idx |-> 1]
        ELSE Returned

\* The first try block of upgrade_project: the loop over the stores.
StorePassStart ==
    IF Len(upgrade_checklist.validations_store_backends) > 0
        THEN [pass |-> "stores", idx |-> 1]
        ELSE DocsPassStart

\* A pass's loop ran to its end.
AfterPass(p) == IF p = "stores" THEN DocsPassStart ELSE Returned

\* upgrade_store_backend returned: the pass's loop goes on.
AfterBackend ==
    IF idx < Len(Checklist(pass)) THEN [pass |-> pass, idx |-> idx + 1]
    ELSE AfterPass(pass)

\* The except clauses name the backends' error type only.
Catches_BackendErrorsOnly(kind) == kind = "BackendError"

\* `except Exception: pass` of either pass: every exception the helper or
\* a backend raises is an Exception.
Catches(kind) ==
    kind \in {"UnboundLocalError", "IndexError", "KeyError", "BackendError"}

\* One try block around both passes.
AfterAbort_SingleTry(p) == Returned

\* Where upgrade_project goes on after its except clause swallowed an
\* exception raised in pass p.
AfterAbort(p) == IF p = "stores" THEN DocsPassStart ELSE Returned

\* An exception leaves upgrade_store_backend inside pass p.
Escape(p, kind) ==
    IF Catches(kind) THEN AfterAbort(p) ELSE [pass |-> "raised", idx |-> 0]

Goto(c) == pass' = c.pass /\ idx' = c.idx /\ frame' = FreshFrame

\* The end of one iteration of `for source_key in validation_source_keys`:
\* run_name and dest_key keep their values into the next iteration.
NextKey ==
    IF frame.ki < Len(frame.keys)
        THEN /\ frame' = [frame EXCEPT !.step = "resolve", !.ki = @ + 1, !.json = NoJson]
             /\ UNCHANGED <<pass, idx>>
        ELSE Goto(AfterBackend)

Ev(op, b, src, dest, ok, how) ==
    [op |-> op, backend |-> b, src |-> src, dest |-> dest, ok |-> ok, how |-> how]

\* One call of _update_upgrade_log: ok tells a success call from an
\* exception call, how tells which URL lookups raised.
LogEv(b, source_key, dest_key, exception_message, o) ==
    Ev("log", b, source_key.val, dest_key.val, exception_message = "", UrlCode(o))

NoListing == [state |-> "none", keys |-> <<>>]

\* __init__ of a helper, up to the call of _generate_upgrade_checklist,
\* over backends holding one of the scenarios.
InitWith(scenarios) ==
    /\ registry \in Registries
    /\ \E sc \in scenarios :
          store_backends = [b \in BackendNames |-> InitialContents(sc[b])]
    /\ upgrade_log = EmptyLog
    /\ upgrade_checklist = EmptyChecklist
    /\ validation_run_times = <<>>
    /\ pass = ChecklistStart.pass /\ idx = ChecklistStart.idx /\ frame = FreshFrame
    /\ faults = 0
    /\ session = 1
    /\ trace = <<>>
    /\ listings = [b \in BackendNames |-> NoListing]
    /\ escaped = {}
    /\ prior = [b \in BackendNames |-> <<>>]

Init == InitWith(Scenarios)

\* _generate_upgrade_checklist: one store of data_context.stores.
GenerateUpgradeChecklistStores ==
    /\ pass = "checklist_stores"
    /\ LET h == ProcessStore(Helper(upgrade_log, upgrade_checklist), registry.stores[idx])
       IN  /\ upgrade_log' = h.log
           /\ upgrade_checklist' = h.checklist
    /\ Goto(IF idx < Len(registry.stores) THEN [pass |-> pass, idx |-> idx + 1] ELSE SitesStart)
    /\ UNCHANGED <<registry, validation_run_times, store_backends, faults, session, trace,
                   listings, escaped, prior>>

\* _generate_upgrade_checklist: one site of data_docs_sites.
GenerateUpgradeChecklistSites ==
    /\ pass = "checklist_sites"
    /\ LET h == ProcessDocsSiteForChecklist(Helper(upgrade_log, upgrade_checklist),
                                            registry.sites[idx])
       IN  /\ upgrade_log' = h.log
           /\ upgrade_checklist' = h.checklist
    /\ Goto(IF idx < Len(registry.sites) THEN [pass |-> pass, idx |-> idx + 1] ELSE Constructed)
    /\ UNCHANGED <<registry, validation_run_times, store_backends, faults, session, trace,
                   listings, escaped, prior>>

\* The call of upgrade_project on the constructed helper.
UpgradeProject ==
    /\ pass = "constructed"
    /\ Goto(StorePassStart)
    /\ UNCHANGED <<registry, upgrade_log, upgrade_checklist, validation_run_times,
                   store_backends, faults, session, trace, listings, escaped, prior>>

\* The loop header of upgrade_project (lines 456-460 / 468-472) and
\* upgrade_store_backend up to its key loop.
StartBackend ==
    /\ pass \in {"stores", "docs"} /\ frame.step = "start"
    /\ LET b == Cur
           log0 == InitLogEntry(upgrade_log, b, IsStore)
       IN  \/ \E order \in Orders(DOMAIN store_backends[b]) :
                 /\ upgrade_log' = log0
                 /\ listings' = [listings EXCEPT ![b] = [state |-> "ok", keys |-> order]]
                 /\ trace' = Append(trace, Ev("list_keys", b, <<>>, <<>>, TRUE, ""))
                 /\ IF Len(order) = 0
                       THEN Goto(AfterBackend)
                       ELSE /\ frame' = [FreshFrame EXCEPT !.step = "resolve",
                                                            !.keys = order, !.ki = 1]
                            /\ UNCHANGED <<pass, idx>>
                 /\ UNCHANGED <<faults, escaped>>
           \/ \* list_keys raises: the handler logs, then the for statement
              \* reads validation_source_keys, which was never bound.
              /\ faults < MaxFaults
              /\ faults' = faults + 1
              /\ upgrade_log' = UpdateUpgradeLog(log0, b, IsStore, None, None,
                                                 "BackendError", TRUE, TRUE)
              /\ listings' = [listings EXCEPT ![b] = [state |-> "failed", keys |-> <<>>]]
              /\ trace' = trace \o <<Ev("list_keys", b, <<>>, <<>>, FALSE, ""),
                                      LogEv(b, None, None, "BackendError",
                                            [src_ok |-> TRUE, dest_ok |-> TRUE])>>
              /\ escaped' = escaped \cup {b}
              /\ Goto(Escape(pass, "UnboundLocalError"))
    /\ UNCHANGED <<registry, upgrade_checklist, validation_run_times, store_backends, session, prior>>

\* The exception handler of the second try block (lines 237-250) and the
\* end of the iteration.
TransferFailed(b, source_key, message, cost, evs) ==
    /\ faults + cost <= MaxFaults
    /\ \E o \in UrlOutcomes(Some(source_key), frame.dest_key, MaxFaults - faults - cost) :
          /\ upgrade_log' = UpdateUpgradeLog(upgrade_log, b, IsStore, Some(source_key),
                                             frame.dest_key, message, o.src_ok, o.dest_ok)
          /\ faults' = faults + cost + UrlFaults(o)
          /\ trace' = Append(trace \o evs,
                             LogEv(b, Some(source_key), frame.dest_key, message, o))
    /\ NextKey

\* The success log call of the second try block (lines 230-236) and the end
\* of the iteration.
TransferSucceeded(b, source_key, evs) ==
    /\ \E o \in UrlOutcomes(Some(source_key), frame.dest_key, MaxFaults - faults) :
          /\ upgrade_log' = UpdateUpgradeLog(upgrade_log, b, IsStore, Some(source_key),
                                             frame.dest_key, "", o.src_ok, o.dest_ok)
          /\ faults' = faults + UrlFaults(o)
          /\ trace' = Append(trace \o evs,
                             LogEv(b, Some(source_key), frame.dest_key, "", o))
    /\ NextKey

\* The first try block of one iteration (lines 195-204) with its handler
\* (lines 205-218).  There is no `continue`: the transfer follows in every
\* case.
ResolveKey ==
    /\ pass \in {"stores", "docs"} /\ frame.step = "resolve"
    /\ LET b == Cur
           source_key == frame.keys[frame.ki]
           transfer == IF IsStore THEN "get" ELSE "move"
       IN  IF Len(source_key) < 2
           THEN \* source_key[-2] raises IndexError before dest_key = None
                IF frame.dest_key.def = "unbound"
                THEN \* the handler reads dest_key, never bound in this call
                     /\ trace' = Append(trace, Ev("resolve", b, source_key, <<>>, FALSE, "index_error"))
                     /\ escaped' = escaped \cup {b}
                     /\ Goto(Escape(pass, "UnboundLocalError"))
                     /\ UNCHANGED <<upgrade_log, validation_run_times, faults>>
                ELSE /\ \E o \in UrlOutcomes(Some(source_key), frame.dest_key, MaxFaults - faults) :
                          /\ upgrade_log' = UpdateUpgradeLog(upgrade_log, b, IsStore,
                                                Some(source_key), frame.dest_key,
                                                "IndexError", o.src_ok, o.dest_ok)
                          /\ faults' = faults + UrlFaults(o)
                          /\ trace' = trace \o
                                <<Ev("resolve", b, source_key, <<>>, FALSE, "index_error"),
                                  LogEv(b, Some(source_key), frame.dest_key, "IndexError", o)>>
                     /\ frame' = [frame EXCEPT !.step = transfer]
                     /\ UNCHANGED <<pass, idx, validation_run_times, escaped>>
           ELSE LET run_name == source_key[Len(source_key) - 1]
                IN  IF NeedsResolution(run_name, validation_run_times)
                    THEN \E r \in RunTimeSetter(b, source_key) :
                            IF r.ok
                            THEN /\ validation_run_times' =
                                        [n \in DOMAIN validation_run_times \cup {run_name} |->
                                            IF n = run_name THEN r.time
                                            ELSE validation_run_times[n]]
                                 /\ frame' = [frame EXCEPT
                                        !.step = transfer,
                                        !.run_name = [def |-> TRUE, val |-> run_name],
                                        !.dest_key = Some(InsertBeforeLast(source_key, r.time))]
                                 /\ trace' = Append(trace, Ev("resolve", b, source_key,
                                        InsertBeforeLast(source_key, r.time), TRUE, r.how))
                                 /\ UNCHANGED <<upgrade_log, faults, pass, idx, escaped>>
                            ELSE /\ faults < MaxFaults
                                 /\ \E o \in UrlOutcomes(Some(source_key), None, MaxFaults - faults - 1) :
                                      /\ upgrade_log' = UpdateUpgradeLog(upgrade_log, b, IsStore,
                                                Some(source_key), None, "BackendError",
                                                o.src_ok, o.dest_ok)
                                      /\ faults' = faults + 1 + UrlFaults(o)
                                      /\ trace' = trace \o
                                            <<Ev("resolve", b, source_key, <<>>, FALSE, r.how),
                                              LogEv(b, Some(source_key), None, "BackendError", o)>>
                                 /\ frame' = [frame EXCEPT
                                        !.step = transfer,
                                        !.run_name = [def |-> TRUE, val |-> run_name],
                                        !.dest_key = None]
                                 /\ UNCHANGED <<validation_run_times, pass, idx, escaped>>
                    ELSE /\ frame' = [frame EXCEPT
                                !.step = transfer,
                                !.run_name = [def |-> TRUE, val |-> run_name],
                                !.dest_key = Some(InsertBeforeLast(source_key,
                                                    validation_run_times[run_name]))]
                         /\ trace' = Append(trace, Ev("resolve", b, source_key,
                                InsertBeforeLast(source_key, validation_run_times[run_name]),
                                TRUE, "cached"))
                         /\ UNCHANGED <<upgrade_log, validation_run_times, faults, pass, idx, escaped>>
    /\ UNCHANGED <<registry, upgrade_checklist, store_backends, session, listings, prior>>

\* ------------------------------------------------------ store backends
BackendSet(contents, key, value) ==
    [k \in DOMAIN contents \cup {key} |-> IF k = key THEN value ELSE contents[k]]

BackendRemove(contents, key) ==
    [k \in DOMAIN contents \ {key} |-> contents[k]]

BackendMove(contents, source_key, dest_key) ==
    BackendRemove(BackendSet(contents, dest_key, contents[source_key]), source_key)

\* ------------------------------------------- _update_validation_result_json
\* validation_json_dict["meta"]["run_id"] = {run_name, run_time}
RewriteRunId(value, run_name, cache) ==
    [value EXCEPT !.run_id = <<run_name, cache[run_name]>>]

\* new_run_id_dict, then store_backend.get(source_key) and json.loads.
TransferGet ==
    /\ pass = "stores" /\ frame.step = "get"
    /\ LET b == Cur
           source_key == frame.keys[frame.ki]
       IN  IF ~frame.run_name.def \/ frame.run_name.val \notin DOMAIN validation_run_times
           THEN \* self.validation_run_times[run_name] raises KeyError
                /\ TransferFailed(b, source_key, "KeyError", 0, <<>>)
           ELSE \/ /\ source_key \in DOMAIN store_backends[b]
                   /\ frame' = [frame EXCEPT
                          !.step = "set",
                          !.json = RewriteRunId(store_backends[b][source_key],
                                                frame.run_name.val, validation_run_times)]
                   /\ trace' = Append(trace, Ev("get", b, source_key, frame.dest_key.val, TRUE, ""))
                   /\ UNCHANGED <<upgrade_log, faults, pass, idx>>
                \/ /\ TransferFailed(b, source_key, "BackendError",
                                     IF source_key \in DOMAIN store_backends[b] THEN 1 ELSE 0,
                                  <<Ev("get", b, source_key, frame.dest_key.val, FALSE, "")>>)
    /\ UNCHANGED <<registry, upgrade_checklist, validation_run_times, store_backends, session,
                   listings, escaped, prior>>

\* store_backend.set(dest_key, json.dumps(validation_json_dict))
TransferSet ==
    /\ pass = "stores" /\ frame.step = "set"
    /\ LET b == Cur
           source_key == frame.keys[frame.ki]
       IN  \/ /\ Truthy(frame.dest_key)
              /\ store_backends' = [store_backends EXCEPT
                        ![b] = BackendSet(@, frame.dest_key.val, frame.json)]
              /\ frame' = [frame EXCEPT !.step = "remove"]
              /\ trace' = Append(trace, Ev("set", b, source_key, frame.dest_key.val, TRUE, ""))
              /\ UNCHANGED <<upgrade_log, faults, pass, idx>>
           \/ /\ TransferFailed(b, source_key, "BackendError",
                                IF Truthy(frame.dest_key) THEN 1 ELSE 0,
                             <<Ev("set", b, source_key, frame.dest_key.val, FALSE, "")>>)
              /\ UNCHANGED store_backends
    /\ UNCHANGED <<registry, upgrade_checklist, validation_run_times, session, listings, escaped, prior>>

\* store_backend.remove_key(source_key), then the success log call.
TransferRemove ==
    /\ pass = "stores" /\ frame.step = "remove"
    /\ LET b == Cur
           source_key == frame.keys[frame.ki]
       IN  \/ /\ source_key \in DOMAIN store_backends[b]
              /\ store_backends' = [store_backends EXCEPT ![b] = BackendRemove(@, source_key)]
              /\ TransferSucceeded(b, source_key,
                                <<Ev("remove_key", b, source_key, frame.dest_key.val, TRUE, "")>>)
           \/ /\ TransferFailed(b, source_key, "BackendError",
                                IF source_key \in DOMAIN store_backends[b] THEN 1 ELSE 0,
                             <<Ev("remove_key", b, source_key, frame.dest_key.val, FALSE, "")>>)
              /\ UNCHANGED store_backends
    /\ UNCHANGED <<registry, upgrade_checklist, validation_run_times, session, listings, escaped, prior>>

\* store_backend.move(source_key, dest_key), then the success log call.
TransferMove ==
    /\ pass = "docs" /\ frame.step = "move"
    /\ LET b == Cur
           source_key == frame.keys[frame.ki]
           valid == Truthy(frame.dest_key) /\ source_key \in DOMAIN store_backends[b]
       IN  \/ /\ valid
              /\ store_backends' = [store_backends EXCEPT
                        ![b] = BackendMove(@, source_key, frame.dest_key.val)]
              /\ TransferSucceeded(b, source_key,
                                <<Ev("move", b, source_key, frame.dest_key.val, TRUE, "")>>)
           \/ /\ TransferFailed(b, source_key, "BackendError", IF valid THEN 1 ELSE 0,
                             <<Ev("move", b, source_key, frame.dest_key.val, FALSE, "")>>)
              /\ UNCHANGED store_backends
    /\ UNCHANGED <<registry, upgrade_checklist, validation_run_times, session, listings, escaped, prior>>

Next ==
    \/ GenerateUpgradeChecklistStores
    \/ GenerateUpgradeChecklistSites
    \/ UpgradeProject
    \/ StartBackend
    \/ ResolveKey
    \/ TransferGet
    \/ TransferSet
    \/ TransferRemove
    \/ TransferMove

Spec == Init /\ [][Next]_vars

\* ------------------------------------------------------------ a rerun
Events == {trace[i] : i \in DOMAIN trace}

\* Destination keys of the transfers this session completed on backend b.
MigratedDests(b) ==
    {e.dest : e \in {x \in Events : x.backend = b /\ x.ok /\ x.op \in {"remove_key", "move"}}}

\* A later session: a new helper (__init__) over the same backends, and
\* upgrade_project on it.
NewSession ==
    /\ pass = "returned"
    /\ session < MaxSessions
    /\ session' = session + 1
    /\ upgrade_log' = EmptyLog
    /\ upgrade_checklist' = EmptyChecklist
    /\ validation_run_times' = <<>>
    /\ Goto(ChecklistStart)
    /\ trace' = <<>>
    /\ listings' = [b \in BackendNames |-> NoListing]
    /\ escaped' = {}
    /\ prior' = [b \in BackendNames |->
                    [k \in (MigratedDests(b) \cup DOMAIN prior[b]) \cap DOMAIN store_backends[b] |->
                        store_backends[b][k]]]
    /\ UNCHANGED <<registry, store_backends, faults>>

InitRerun == InitWith(RerunScenarios)

NextRerun == Next \/ NewSession

SpecRerun == InitRerun /\ [][NextRerun]_vars

\* ------------------------------------------------------------ the claims
RunIdOf(key) == key[Len(key) - 1]

\* The 'updated' list of a store or site, once it is in the log.
UpdatedList(b) ==
    IF b \in DOMAIN upgrade_log.upgraded_validations_stores
        THEN upgrade_log.upgraded_validations_stores[b].validations_updated
    ELSE IF b \in DOMAIN upgrade_log.upgraded_docs_site_validations_stores
        THEN upgrade_log.upgraded_docs_site_validations_stores[b].validation_result_pages_updated
    ELSE <<>>

InLog(b) ==
    \/ b \in DOMAIN upgrade_log.upgraded_validations_stores
    \/ b \in DOMAIN upgrade_log.upgraded_docs_site_validations_stores

ExceptionsFlag(b) ==
    IF b \in DOMAIN upgrade_log.upgraded_validations_stores
        THEN upgrade_log.upgraded_validations_stores[b].exceptions
    ELSE IF b \in DOMAIN upgrade_log.upgraded_docs_site_validations_stores
        THEN upgrade_log.upgraded_docs_site_validations_stores[b].exceptions
    ELSE FALSE

\* Entries of the flat exceptions list that belong to store/site b.
ExceptionsOf(b) ==
    {i \in DOMAIN upgrade_log.exceptions : upgrade_log.exceptions[i].name = b}

\* ... and whose source location is that of key k.
ExceptionsOfKey(b, k) ==
    {i \in ExceptionsOf(b) : /\ upgrade_log.exceptions[i].src.kind # "N/A"
                             /\ upgrade_log.exceptions[i].src.key = k}

UpdatesOfKey(b, k) ==
    {i \in DOMAIN UpdatedList(b) : /\ UpdatedList(b)[i].src.kind # "N/A"
                                   /\ UpdatedList(b)[i].src.key = k}

TransferOps == {"get", "set", "remove_key", "move"}

\* C1: after upgrade_project, every key list_keys returned for a store or
\* site is accounted for exactly once in the log: one pair in the updated
\* list or one entry in the exceptions list, never both, twice or omitted.
C1_EveryKeyAccountedOnce ==
    pass = "returned" =>
        \A b \in BackendNames :
            listings[b].state = "ok" =>
                \A i \in DOMAIN listings[b].keys :
                    Cardinality(ExceptionsOfKey(b, listings[b].keys[i]))
                    + Cardinality(UpdatesOfKey(b, listings[b].keys[i])) = 1

\* C2: a later run leaves every record an earlier run migrated where it
\* is, with the value it had, and logs no further 'updated' pair for it.
C2_RerunLeavesMigratedKeys ==
    \A b \in BackendNames :
        \A d \in DOMAIN prior[b] :
            /\ d \in DOMAIN store_backends[b]
            /\ store_backends[b][d] = prior[b][d]
            /\ UpdatesOfKey(b, d) = {}

\* Destination keys computed or used for a key that has a run identifier.
DestEvents ==
    {e \in Events : e.op \in {"resolve", "set", "move"} /\ e.dest # <<>> /\ Len(e.src) >= 2}

\* C3: within one session all keys with the same run identifier carry the
\* same run time in their destination key, in one backend or across
\* stores and sites.
C3_SameRunIdSameRunTime ==
    \A e1, e2 \in DestEvents :
        RunIdOf(e1.src) = RunIdOf(e2.src) => RunIdOf(e1.dest) = RunIdOf(e2.dest)

\* A store and a site both transferred a key of the same unparseable run
\* identifier, and the site's own stamp differs from the one in the key.
C3_Witness ==
    \E e1, e2 \in DestEvents :
        /\ e1.backend \in {"vs_fs", "vs_s3"} /\ e1.op = "set" /\ e1.ok
        /\ e2.backend \in {"site_fs", "site_gcs"} /\ e2.op = "move" /\ e2.ok
        /\ RunIdOf(e1.src) = RunLabel /\ RunIdOf(e2.src) = RunLabel
        /\ ProvenanceTime(e2.backend, e2.src) # RunIdOf(e2.dest)

\* C4: the destination of every transfer issued with a destination key is
\* the source key with the run time of source_key[-2] inserted before the
\* last segment: one segment longer, the others unchanged and in order.
C4_DestIsSourcePlusRunTime ==
    \A e \in Events :
        (e.op \in {"set", "move"} /\ e.dest # <<>>) =>
            /\ Len(e.src) >= 2
            /\ Len(e.dest) = Len(e.src) + 1
            /\ \A i \in 1..(Len(e.src) - 1) : e.dest[i] = e.src[i]
            /\ e.dest[Len(e.dest)] = e.src[Len(e.src)]
            /\ RunIdOf(e.src) \in DOMAIN validation_run_times
            /\ e.dest[Len(e.src)] = validation_run_times[RunIdOf(e.src)]

\* The keys of backend b whose iteration was entered, in order.
AttemptedKeys(b) ==
    LET IsAttempt(e) == e.op = "resolve" /\ e.backend = b
        es == SelectSeq(trace, IsAttempt)
    IN  [i \in 1..Len(es) |-> es[i].src]

\* C5: in a backend whose listing succeeded every listed key is attempted,
\* in listing order, whatever failed on the keys before it.
C5_EveryListedKeyAttempted ==
    pass = "returned" =>
        \A b \in BackendNames :
            listings[b].state = "ok" => AttemptedKeys(b) = listings[b].keys

\* C6: a store (site) that follows one whose list_keys failed in the same
\* pass is still initialised in the log and migrated.
C6_ListingFailureOnlyThatBackend ==
    pass = "returned" =>
        \A p \in {"stores", "docs"} :
            \A i, j \in DOMAIN Checklist(p) :
                (i < j /\ listings[Checklist(p)[i]].state = "failed") =>
                    /\ InLog(Checklist(p)[j])
                    /\ listings[Checklist(p)[j]].state # "none"

\* C7: after list_keys raised on a backend the log holds exactly one
\* exception entry for it, src and dest "N/A"; its updated list is empty,
\* its flag True, and no get, set, remove_key or move was issued on it.
C7_ListingFailureLogged ==
    \A b \in BackendNames :
        listings[b].state = "failed" =>
            /\ Cardinality(ExceptionsOf(b)) = 1
            /\ \A i \in ExceptionsOf(b) :
                  /\ upgrade_log.exceptions[i].src = NA
                  /\ upgrade_log.exceptions[i].dest = NA
            /\ InLog(b)
            /\ UpdatedList(b) = <<>>
            /\ ExceptionsFlag(b)
            /\ ~ \E e \in Events : e.backend = b /\ e.op \in TransferOps

C7_Witness ==
    /\ pass = "returned"
    /\ \E b \in BackendNames : listings[b].state = "failed" /\ DOMAIN store_backends[b] # {}

\* C8: a key whose run-time resolution failed has exactly one exception
\* entry (dest "N/A") and no transfer step is attempted for it.
C8_ResolutionFailureSkipsTransfer ==
    \A e \in Events :
        (e.op = "resolve" /\ e.how \in {"failed_client", "failed_fetch"}) =>
            /\ Cardinality(ExceptionsOfKey(e.backend, e.src)) = 1
            /\ \A i \in ExceptionsOfKey(e.backend, e.src) : upgrade_log.exceptions[i].dest = NA
            /\ ~ \E t \in Events : t.backend = e.backend /\ t.src = e.src /\ t.op \in TransferOps

C10_AlwaysReturnsLog ==
    /\ pass # "raised"
    /\ (pass # "returned" => ENABLED Next)

\* upgrade_project returned although both passes were aborted.
C10_Witness ==
    /\ pass = "returned"
    /\ \E s \in escaped : \E i \in DOMAIN StoreNames : StoreNames[i] = s
    /\ \E s \in escaped : \E i \in DOMAIN SiteNames : SiteNames[i] = s

\* The records a store held when it was listed, by the key they were
\* first stored under.
RecordsAtStart(b) == {listings[b].keys[i] : i \in DOMAIN listings[b].keys}

\* C11: no record of a primary store is lost: at every state each record
\* present at the start is still stored, under its source key or under a
\* destination key, and no migrated record is overwritten by the transfer
\* of another key.
C11_NoRecordLost ==
    \A i \in DOMAIN StoreNames :
        LET b == StoreNames[i]
        IN  \A r \in RecordsAtStart(b) :
                \E k \in DOMAIN store_backends[b] : store_backends[b][k].data = r

\* Positions of the trace where a run-time setter was invoked for run
\* identifier r, and where it went to the backend for the object's stamp.
SetterCalls(r) ==
    {i \in DOMAIN trace :
        /\ trace[i].op = "resolve" /\ Len(trace[i].src) >= 2 /\ RunIdOf(trace[i].src) = r
        /\ trace[i].how \in {"parsed", "fetched", "failed_client", "failed_fetch"}}

ProvenanceFetches(r) ==
    {i \in SetterCalls(r) : trace[i].how \in {"fetched", "failed_fetch"}}

RunIdsSeen == {RunIdOf(e.src) : e \in {x \in Events : x.op = "resolve" /\ Len(x.src) >= 2}}

\* C12 as stated: within a session the provenance fetch is performed at
\* most once per run identifier, and no resolver is invoked for an
\* identifier that is in the cache.
C12_FetchAtMostOnce ==
    \A r \in RunIdsSeen :
        /\ Cardinality(ProvenanceFetches(r)) <= 1
        /\ \A i, j \in SetterCalls(r) : (i < j) => ~trace[i].ok

\* C12 amended: at most one provenance fetch per run identifier succeeds,
\* and no resolver is invoked for an identifier that is in the cache; a
\* fetch that failed is repeated for the next key of that identifier.
C12_SuccessfulFetchAtMostOnce ==
    \A r \in RunIdsSeen :
        /\ Cardinality({i \in ProvenanceFetches(r) : trace[i].ok}) <= 1
        /\ \A i, j \in SetterCalls(r) : (i < j) => ~trace[i].ok
        /\ (r \in DOMAIN validation_run_times) <=> (\E i \in SetterCalls(r) : trace[i].ok)

\* A fetch failed for a run identifier, a later key of the same identifier
\* fetched again and succeeded, and a third key found it cached.
C12_Witness ==
    \E r \in RunIdsSeen :
        /\ \E i, j \in ProvenanceFetches(r) : i < j /\ ~trace[i].ok /\ trace[j].ok
        /\ \E e \in Events : /\ e.op = "resolve" /\ e.how = "cached"
                             /\ Len(e.src) >= 2 /\ RunIdOf(e.src) = r

IsSiteName(b) == \E i \in DOMAIN SiteNames : SiteNames[i] = b

\* C15: a site is only relocated (move is the one mutating call issued on
\* it, and the destination holds the source's value unchanged); for a
\* store the value written under the destination key is the source value
\* with only meta.run_id replaced by {run_name: source_key[-2], run_time:
\* the cached run time of that run name}.
C15_RelocateSitesRewriteStores ==
    /\ \A e \in Events : IsSiteName(e.backend) => e.op \notin {"get", "set", "remove_key"}
    /\ (Len(trace) >= 2 /\ trace[Len(trace) - 1].op = "move" /\ trace[Len(trace) - 1].ok) =>
            LET e == trace[Len(trace) - 1]
            IN  /\ e.dest \in DOMAIN store_backends[e.backend]
                /\ store_backends[e.backend][e.dest] = OldValue(e.src)
    /\ (Len(trace) >= 1 /\ trace[Len(trace)].op = "set" /\ trace[Len(trace)].ok) =>
            LET e == trace[Len(trace)]
                b == e.backend
            IN  /\ Len(e.src) >= 2
                /\ RunIdOf(e.src) \in DOMAIN validation_run_times
                /\ e.src \in DOMAIN store_backends[b]
                /\ e.dest \in DOMAIN store_backends[b]
                /\ store_backends[b][e.dest] =
                      [store_backends[b][e.src] EXCEPT
                          !.run_id = <<RunIdOf(e.src), validation_run_times[RunIdOf(e.src)]>>]

\* C16: validation_run_times is write-once per run identifier within a
\* session: no step changes or removes an entry that exists, and a step
\* in which a resolution failed leaves the whole cache as it was.
C16_CacheWriteOnce ==
    [][ /\ \A r \in DOMAIN validation_run_times :
              /\ r \in DOMAIN validation_run_times'
              /\ validation_run_times'[r] = validation_run_times[r]
        /\ (\E i \in (Len(trace) + 1)..Len(trace') :
                trace'[i].op = "resolve" /\ ~trace'[i].ok)
              => validation_run_times' = validation_run_times ]_vars

\* A resolution failed, an identifier was fetched and cached, and later a
\* key of that identifier whose own stamp is another one was served from
\* the cache.
C16_Witness ==
    \E i, j, k \in DOMAIN trace :
        /\ i < j
        /\ trace[i].op = "resolve" /\ trace[i].how = "fetched"
        /\ trace[j].op = "resolve" /\ trace[j].how = "cached"
        /\ RunIdOf(trace[j].src) = RunIdOf(trace[i].src)
        /\ ProvenanceTime(trace[j].backend, trace[j].src)
              # validation_run_times[RunIdOf(trace[i].src)]
        /\ trace[k].op = "resolve" /\ trace[k].how \in {"failed_client", "failed_fetch"}

\* A key with the segment before its last one taken out.
WithoutRunTime(dest_key) ==
    SubSeq(dest_key, 1, Len(dest_key) - 2) \o <<dest_key[Len(dest_key)]>>

\* C19: while the transfer of a listed key is in progress, the run name and
\* the destination key held by upgrade_store_backend are the ones derived
\* from that key (none when the key has fewer than two segments), and
\* every set or move issued with a destination names the source key the
\* destination was derived from.
C19_DestAndRunNameOfSameKey ==
    /\ (pass \in {"stores", "docs"} /\ frame.step \in {"get", "set", "remove", "move"}) =>
          LET source_key == frame.keys[frame.ki]
          IN  /\ frame.dest_key.def = "key" =>
                    /\ Len(source_key) >= 2
                    /\ WithoutRunTime(frame.dest_key.val) = source_key
              /\ Len(source_key) >= 2 => frame.run_name = [def |-> TRUE, val |-> RunIdOf(source_key)]
    /\ \A e \in Events :
          (e.op \in {"set", "move"} /\ e.dest # <<>>) => WithoutRunTime(e.dest) = e.src

\* The transfers completed on backend b, in order: the remove_key of a
\* store or the move of a site returned.
CompletedTransfers(b) ==
    LET IsDone(e) == e.backend = b /\ e.ok /\ e.op \in {"remove_key", "move"}
    IN  SelectSeq(trace, IsDone)

\* C20: the pairs of a store's or site's updated list are, in order, the
\* source and destination of the transfers completed on it; a key whose
\* get, set, remove_key or move failed has no pair; and when a pair has
\* just been logged the destination key holds the source's document and
\* the source key is gone.
C20_UpdatedPairsAreCompletedTransfers ==
    /\ \A b \in BackendNames :
          LET done == CompletedTransfers(b)
          IN  /\ Len(UpdatedList(b)) = Len(done)
              /\ \A i \in DOMAIN done :
                    /\ UpdatedList(b)[i].src.key = done[i].src
                    /\ UpdatedList(b)[i].dest.key = done[i].dest
                    /\ UpdatedList(b)[i].dest.kind # "N/A"
              /\ \A e \in Events :
                    (e.backend = b /\ e.op \in TransferOps /\ ~e.ok) =>
                        UpdatesOfKey(b, e.src) = {}
    /\ (Len(trace) >= 1 /\ trace[Len(trace)].op = "log" /\ trace[Len(trace)].ok) =>
          LET e == trace[Len(trace)]
          IN  /\ e.dest \in DOMAIN store_backends[e.backend]
              /\ store_backends[e.backend][e.dest].data = e.src
              /\ e.src \notin DOMAIN store_backends[e.backend]

\* A pair has just been logged for a store in which the transfer of
\* another key failed.
C20_Witness ==
    /\ Len(trace) >= 1 /\ trace[Len(trace)].op = "log" /\ trace[Len(trace)].ok
    /\ \E e \in Events : /\ e.backend = trace[Len(trace)].backend
                         /\ e.op \in TransferOps /\ ~e.ok
                         /\ e.src # trace[Len(trace)].src
    /\ UpdatesOfKey(trace[Len(trace)].backend, trace[Len(trace)].src) # {}

\* The location a log call records for a key: "N/A" for no key, the
\* placeholder when its own get_url_for_key call raised, else the URL.
RecordedLocation(b, key, url_failed) ==
    IF key = <<>> THEN NA
    ELSE IF url_failed THEN [kind |-> "unable", backend |-> "", key |-> key]
    ELSE [kind |-> "url", backend |-> b, key |-> key]

SrcUrlFailed(e) == e.how \in {"src", "src+dest"}

DestUrlFailed(e) == e.how \in {"dest", "src+dest"}

\* C18: every call of _update_upgrade_log writes its entry whatever
\* get_url_for_key does: the exception calls are, in order, the entries of
\* the exceptions list and the success calls on a store or site are, in
\* order, the pairs of its updated list; in each entry a location is the
\* placeholder exactly when the URL lookup of that location failed, the
\* other location being recorded as if nothing had failed.
C18_UrlFailureStaysLocal ==
    /\ LET IsExc(e) == e.op = "log" /\ ~e.ok
           calls == SelectSeq(trace, IsExc)
       IN  /\ Len(upgrade_log.exceptions) = Len(calls)
           /\ \A i \in DOMAIN calls :
                 /\ upgrade_log.exceptions[i].name = calls[i].backend
                 /\ upgrade_log.exceptions[i].src =
                        RecordedLocation(calls[i].backend, calls[i].src, SrcUrlFailed(calls[i]))
                 /\ upgrade_log.exceptions[i].dest =
                        RecordedLocation(calls[i].backend, calls[i].dest, DestUrlFailed(calls[i]))
    /\ \A b \in BackendNames :
          LET IsOk(e) == e.op = "log" /\ e.ok /\ e.backend = b
              calls == SelectSeq(trace, IsOk)
          IN  /\ Len(UpdatedList(b)) = Len(calls)
              /\ \A i \in DOMAIN calls :
                    UpdatedList(b)[i] =
                        [src |-> RecordedLocation(b, calls[i].src, SrcUrlFailed(calls[i])),
                         dest |-> RecordedLocation(b, calls[i].dest, DestUrlFailed(calls[i]))]

\* A successful transfer was logged with the placeholder for one location
\* and the URL for the other, and an exception was logged with the
\* placeholder for its source.
C18_Witness ==
    /\ \E b \in BackendNames : \E i \in DOMAIN UpdatedList(b) :
          /\ UpdatedList(b)[i].src.kind = "url"
          /\ UpdatedList(b)[i].dest.kind = "unable"
    /\ \E b \in BackendNames : \E i \in DOMAIN UpdatedList(b) :
          /\ UpdatedList(b)[i].src.kind = "unable"
          /\ UpdatedList(b)[i].dest.kind = "url"
    /\ \E i \in DOMAIN upgrade_log.exceptions :
          /\ upgrade_log.exceptions[i].src.kind = "unable"
          /\ upgrade_log.exceptions[i].dest.kind # "unable"

\* How often a name occurs in a list of the checklist or of skip entries.
TimesListed(names, n) == Cardinality({i \in DOMAIN names : names[i] = n})

TimesSkippedStore(entries, n) == Cardinality({i \in DOMAIN entries : entries[i].store_name = n})

TimesSkippedSite(entries, n) == Cardinality({i \in DOMAIN entries : entries[i].site_name = n})

\* In how many places of {checklist, skip list for database backends,
\* skip list for unsupported backends} a store, a site is recorded.
StorePlaces(n) ==
    TimesListed(upgrade_checklist.validations_store_backends, n)
    + TimesSkippedStore(upgrade_log.skipped_validations_stores.database_store_backends, n)
    + TimesSkippedStore(upgrade_log.skipped_metrics_stores.database_store_backends, n)
    + TimesSkippedStore(upgrade_log.skipped_validations_stores.unsupported, n)
    + TimesSkippedStore(upgrade_log.skipped_metrics_stores.unsupported, n)

SitePlaces(n) ==
    TimesListed(upgrade_checklist.docs_validations_store_backends, n)
    + TimesSkippedSite(upgrade_log.skipped_docs_validations_stores.unsupported, n)

ChecklistBuilt == pass \notin {"checklist_stores", "checklist_sites"}

\* C13: once the checklist is built every store and every docs site of
\* the registry is in exactly one of the checklist, the skip list for
\* database backends and the skip list for unsupported backends.
C13_EveryRegistryEntryInOnePlace ==
    ChecklistBuilt =>
        /\ \A i \in DOMAIN registry.stores : StorePlaces(registry.stores[i]) = 1
        /\ \A i \in DOMAIN registry.sites : SitePlaces(registry.sites[i]) = 1

\* C13 as the builder does it: every validations store, every metric
\* store whose backend is not in-memory and every docs site is in exactly
\* one of the three places; a store of another class and a metric store
\* with an in-memory backend is in none of them.
C13_ClassifiedOnceOrIgnored ==
    ChecklistBuilt =>
        /\ \A i \in DOMAIN registry.stores :
              LET n == registry.stores[i]
                  ignored == \/ StoreType(n) \notin {"ValidationsStore", "MetricStore"}
                             \/ /\ StoreType(n) = "MetricStore"
                                /\ BackendKind(n) = "InMemoryStoreBackend"
              IN  StorePlaces(n) = IF ignored THEN 0 ELSE 1
        /\ \A i \in DOMAIN registry.sites : SitePlaces(registry.sites[i]) = 1

\* A helper was constructed over a registry with stores of every class and
\* backend kind, among them an expectations store and an in-memory metric
\* store, and both a migratable and an unsupported site.
C13_Witness ==
    /\ pass = "constructed"
    /\ \E i, j \in DOMAIN registry.stores :
          /\ StoreType(registry.stores[i]) = "ExpectationsStore"
          /\ StoreType(registry.stores[j]) = "MetricStore"
          /\ BackendKind(registry.stores[j]) = "InMemoryStoreBackend"
    /\ Len(upgrade_checklist.validations_store_backends) > 0
    /\ Len(upgrade_log.skipped_validations_stores.unsupported) > 0
    /\ Len(upgrade_log.skipped_metrics_stores.unsupported) > 0
    /\ Len(upgrade_log.skipped_metrics_stores.database_store_backends) > 0
    /\ Len(upgrade_checklist.docs_validations_store_backends) > 0
    /\ Len(upgrade_log.skipped_docs_validations_stores.unsupported) > 0

\* The validations stores and metric stores of the registry whose backend
\* is a database.
DatabaseStores ==
    {registry.stores[i] : i \in {j \in DOMAIN registry.stores :
        /\ StoreType(registry.stores[j]) \in {"ValidationsStore", "MetricStore"}
        /\ BackendKind(registry.stores[j]) = "DatabaseStoreBackend"}}

\* C14: a validations store or metric store with a database backend is,
\* once the checklist is built, recorded once in the database skip list of
\* its class with its backend class and in no other list; it is never in
\* the checklist, upgrade_project never starts upgrade_store_backend on it
\* (no log section, no backend operation), and no exception entry names it.
C14_DatabaseStoresOnlySkipped ==
    \A n \in DatabaseStores :
        LET own == IF StoreType(n) = "ValidationsStore"
                       THEN upgrade_log.skipped_validations_stores
                       ELSE upgrade_log.skipped_metrics_stores
            other == IF StoreType(n) = "ValidationsStore"
                       THEN upgrade_log.skipped_metrics_stores
                       ELSE upgrade_log.skipped_validations_stores
        IN  /\ ChecklistBuilt =>
                  /\ TimesSkippedStore(own.database_store_backends, n) = 1
                  /\ \A i \in DOMAIN own.database_store_backends :
                        own.database_store_backends[i].store_name = n =>
                            own.database_store_backends[i].store_backend_class
                                = "DatabaseStoreBackend"
            /\ TimesSkippedStore(own.unsupported, n) = 0
            /\ TimesSkippedStore(other.database_store_backends, n) = 0
            /\ TimesSkippedStore(other.unsupported, n) = 0
            /\ TimesListed(upgrade_checklist.validations_store_backends, n) = 0
            /\ TimesListed(upgrade_checklist.docs_validations_store_backends, n) = 0
            /\ ~(pass \in {"stores", "docs"} /\ Cur = n)
            /\ ~InLog(n)
            /\ ~ \E e \in Events : e.backend = n
            /\ ExceptionsOf(n) = {}

\* upgrade_project returned over a registry with a database validations
\* store and a database metric store, having migrated keys of other
\* stores and logged exceptions for some.
C14_Witness ==
    /\ pass = "returned"
    /\ \E n, k \in DatabaseStores :
          StoreType(n) = "ValidationsStore" /\ StoreType(k) = "MetricStore"
    /\ Len(upgrade_log.exceptions) > 0
    /\ \E b \in BackendNames : Len(UpdatedList(b)) > 0

\* List `now` is list `before` with entries appended at its end.
GrewFrom(before, now) ==
    /\ Len(before) <= Len(now)
    /\ \A i \in DOMAIN before : now[i] = before[i]

\* C17: within a session no step removes, replaces or reorders an entry
\* of a skip list, of the exceptions list or of a store's or site's
\* updated list: each list of the next state is the list of this state
\* with entries appended, a store's or site's section stays in the log and
\* its exceptions flag, once True, stays True.
C17_LogAppendOnly ==
    [][ /\ GrewFrom(upgrade_log.skipped_validations_stores.database_store_backends,
                    upgrade_log'.skipped_validations_stores.database_store_backends)
        /\ GrewFrom(upgrade_log.skipped_validations_stores.unsupported,
                    upgrade_log'.skipped_validations_stores.unsupported)
        /\ GrewFrom(upgrade_log.skipped_docs_validations_stores.unsupported,
                    upgrade_log'.skipped_docs_validations_stores.unsupported)
        /\ GrewFrom(upgrade_log.skipped_metrics_stores.database_store_backends,
                    upgrade_log'.skipped_metrics_stores.database_store_backends)
        /\ GrewFrom(upgrade_log.skipped_metrics_stores.unsupported,
                    upgrade_log'.skipped_metrics_stores.unsupported)
        /\ GrewFrom(upgrade_log.exceptions, upgrade_log'.exceptions)
        /\ \A b \in DOMAIN upgrade_log.upgraded_validations_stores :
              /\ b \in DOMAIN upgrade_log'.upgraded_validations_stores
              /\ GrewFrom(upgrade_log.upgraded_validations_stores[b].validations_updated,
                          upgrade_log'.upgraded_validations_stores[b].validations_updated)
              /\ upgrade_log.upgraded_validations_stores[b].exceptions
                    => upgrade_log'.upgraded_validations_stores[b].exceptions
        /\ \A b \in DOMAIN upgrade_log.upgraded_docs_site_validations_stores :
              /\ b \in DOMAIN upgrade_log'.upgraded_docs_site_validations_stores
              /\ GrewFrom(
                    upgrade_log.upgraded_docs_site_validations_stores[b].validation_result_pages_updated,
                    upgrade_log'.upgraded_docs_site_validations_stores[b].validation_result_pages_updated)
              /\ upgrade_log.upgraded_docs_site_validations_stores[b].exceptions
                    => upgrade_log'.upgraded_docs_site_validations_stores[b].exceptions
      ]_vars

\* upgrade_project returned a log whose skip lists, exceptions list and
\* updated lists were all written, two stores and two sites having been
\* started one after the other.
C17_Witness ==
    /\ pass = "returned"
    /\ Len(upgrade_log.skipped_validations_stores.database_store_backends) > 0
    /\ Len(upgrade_log.skipped_metrics_stores.unsupported) > 0
    /\ Len(upgrade_log.skipped_docs_validations_stores.unsupported) > 0
    /\ Len(upgrade_log.exceptions) >= 2
    /\ Cardinality(DOMAIN upgrade_log.upgraded_validations_stores) = 2
    /\ Cardinality(DOMAIN upgrade_log.upgraded_docs_site_validations_stores) = 2
    /\ \E b \in DOMAIN upgrade_log.upgraded_validations_stores :
          Len(upgrade_log.upgraded_validations_stores[b].validations_updated) >= 2

\* Whether the flat exceptions list of a log holds an entry that names b
\* under the given key ("validation_store_name" or "site_name").
HasExceptionEntry(log, key_name, b) ==
    \E i \in DOMAIN log.exceptions :
        log.exceptions[i].key_name = key_name /\ log.exceptions[i].name = b

\* C21: the exceptions flag of every store and site that has a section in
\* the log is True exactly when the flat exceptions list holds an entry
\* naming that store (validation_store_name) or site (site_name), and no
\* step of an upgrade_project call turns a flag from True to False.
C21_FlagIffExceptionEntry ==
    /\ [](/\ \A b \in DOMAIN upgrade_log.upgraded_validations_stores :
                upgrade_log.upgraded_validations_stores[b].exceptions
                    <=> HasExceptionEntry(upgrade_log, "validation_store_name", b)
          /\ \A b \in DOMAIN upgrade_log.upgraded_docs_site_validations_stores :
                upgrade_log.upgraded_docs_site_validations_stores[b].exceptions
                    <=> HasExceptionEntry(upgrade_log, "site_name", b))
    /\ [][ /\ \A b \in DOMAIN upgrade_log.upgraded_validations_stores :
                upgrade_log.upgraded_validations_stores[b].exceptions =>
                    /\ b \in DOMAIN upgrade_log'.upgraded_validations_stores
                    /\ upgrade_log'.upgraded_validations_stores[b].exceptions
           /\ \A b \in DOMAIN upgrade_log.upgraded_docs_site_validations_stores :
                upgrade_log.upgraded_docs_site_validations_stores[b].exceptions =>
                    /\ b \in DOMAIN upgrade_log'.upgraded_docs_site_validations_stores
                    /\ upgrade_log'.upgraded_docs_site_validations_stores[b].exceptions ]_vars

\* upgrade_project returned with a store whose flag is True, a store
\* whose flag is False, and a site whose call raised out without logging
\* anything, its flag still False.
C21_Witness ==
    /\ pass = "returned"
    /\ \E b, c \in DOMAIN upgrade_log.upgraded_validations_stores :
          /\ upgrade_log.upgraded_validations_stores[b].exceptions
          /\ HasExceptionEntry(upgrade_log, "validation_store_name", b)
          /\ ~upgrade_log.upgraded_validations_stores[c].exceptions
          /\ Len(upgrade_log.upgraded_validations_stores[c].validations_updated) > 0
    /\ \E b \in escaped :
          /\ b \in DOMAIN upgrade_log.upgraded_docs_site_validations_stores
          /\ ~upgrade_log.upgraded_docs_site_validations_stores[b].exceptions

====
